---- MODULE Spec2Model ----
(***************************************************************************)
(* Model of the linked-CA client of smallstep certificates                 *)
(* (authority/linkedca.go, kept as src/unnamed/part_000): the bootstrap of *)
(* newLinkedCAClient, getAuthority, getRootCertificate, login, and the     *)
(* renewal of the client certificate through tlsutil.Renewer.              *)
(*                                                                         *)
(* Strings are sequences of one-character strings, so that slicing,        *)
(* prefix tests, pattern matching and case folding are computed.  A PEM    *)
(* text is a sequence of elements, each a PEM block or a stretch of        *)
(* non-PEM text; a DER payload is a name, and x509.ParseCertificate fails  *)
(* on the payload BadDer.                                                  *)
(*                                                                         *)
(* Claims.ToCertificates and the request methods of MgmtClient             *)
(* (src/authority/mgmt/provisioner.go) are modelled as calls of their own, *)
(* under SpecClaims and SpecMgmt.                                          *)
(***************************************************************************)
EXTENDS Integers, Sequences, FiniteSets, TLC

VARIABLES
    call,      \* a function called on its own: [op, in, out, n]
    pc,        \* position of newLinkedCAClient
    token,     \* the token handed to newLinkedCAClient
    boot,      \* locals of newLinkedCAClient: u, authority, signer, csr, root, cert, err
    fx,        \* what newLinkedCAClient has done so far: keys generated, connections opened
    pool,      \* the x509.CertPool shared by login, the renewer and the channel
    renewer,   \* tlsutil.Renewer: [cert, timer, mu]
    rn,        \* the renewal callback (renewCertificate): [pc, res, root]
    rd,        \* the handshakes calling tlsConfig.GetClientCertificate
    hist       \* history: the last login response and what it was called with

vars == <<call, pc, token, boot, fx, pool, renewer, rn, rd, hist>>

\* ------------------------------------------------------------------ bounds
MaxSans == 3
MaxPem == 3
MaxChain == 3
MaxLeaf == 2
MaxReaders == 1

\* ----------------------------------------------------------------- strings
BSeq(S, n) == UNION {[1..k -> S] : k \in 0..n}

Drop(s, n) == IF n >= Len(s) THEN <<>> ELSE SubSeq(s, n + 1, Len(s))

HasPrefix(s, p) == Len(s) >= Len(p) /\ SubSeq(s, 1, Len(p)) = p

Digits == {"0", "1", "2", "3", "4", "5", "6", "7", "8", "9"}
LowerHex == {"a", "b", "c", "d", "e", "f"}
UpperHex == {"A", "B", "C", "D", "E", "F"}

\* unicode.SimpleFold restricted to the characters of the model
Fold(c) ==
    CASE c = "A" -> "a" [] c = "B" -> "b" [] c = "C" -> "c"
      [] c = "D" -> "d" [] c = "E" -> "e" [] c = "F" -> "f"
      [] c = "G" -> "g" [] OTHER -> c

EqualFold(s, t) ==
    /\ Len(s) = Len(t)
    /\ \A i \in 1..Len(s) : Fold(s[i]) = Fold(t[i])

\* ------------------------------------------------------------ getAuthority
\* "urn:smallstep:authority:"
AuthorityPrefix ==
    <<"u", "r", "n", ":", "s", "m", "a", "l", "l", "s", "t", "e", "p", ":",
      "a", "u", "t", "h", "o", "r", "i", "t", "y", ":">>

\* s[24:]
AuthorityPrefixLen == 24

\* uuidPattern: the lengths of the groups of [a-fA-F0-9], joined by "-"
UuidGroups == <<8, 4, 4, 4, 12>>

IsHexChar(c) == c \in Digits \cup LowerHex \cup UpperHex

\* the position after a run of exactly n hex characters starting at pos, 0 if there is none
RECURSIVE MatchHexRun(_, _, _)
MatchHexRun(s, pos, n) ==
    IF n = 0 THEN pos
    ELSE IF pos > Len(s) \/ ~IsHexChar(s[pos]) THEN 0
    ELSE MatchHexRun(s, pos + 1, n - 1)

\* the position after groups g.. of the pattern matched from pos, 0 if they do not match
RECURSIVE MatchGroups(_, _, _)
MatchGroups(s, pos, g) ==
    LET after == MatchHexRun(s, pos, UuidGroups[g])
    IN  IF after = 0 THEN 0
        ELSE IF g = Len(UuidGroups) THEN after
        ELSE IF after > Len(s) \/ s[after] # "-" THEN 0
        ELSE MatchGroups(s, after + 1, g + 1)

\* the pattern without its closing "$"
MatchUUIDUnanchored(s) == MatchGroups(s, 1, 1) # 0

\* regexp.MustCompile(uuidPattern).MatchString(s): "^" and "$" anchor the whole text
MatchUUID(s) == MatchGroups(s, 1, 1) = Len(s) + 1

ErrSans == "error parsing token: invalid sans claim"

RECURSIVE AuthorityFrom(_, _)
AuthorityFrom(sans, i) ==
    IF i > Len(sans) THEN [id |-> <<>>, err |-> ErrSans]
    ELSE IF HasPrefix(sans[i], AuthorityPrefix)
            /\ MatchUUID(Drop(sans[i], AuthorityPrefixLen))
         THEN [id |-> Drop(sans[i], AuthorityPrefixLen), err |-> ""]
         ELSE AuthorityFrom(sans, i + 1)

getAuthority(sans) == AuthorityFrom(sans, 1)

\* ------------------------------------------------------- SANs of the checks
Uuid1 ==
    <<"0", "1", "2", "3", "4", "5", "6", "7", "-", "8", "9", "a", "b", "-",
      "c", "d", "e", "f", "-", "0", "1", "2", "3", "-",
      "4", "5", "6", "7", "8", "9", "a", "b", "c", "d", "e", "f">>
Uuid2 ==
    <<"A", "B", "C", "D", "E", "F", "0", "0", "-", "a", "A", "b", "B", "-",
      "1", "1", "1", "1", "-", "F", "f", "F", "f", "-",
      "9", "9", "9", "9", "9", "9", "9", "9", "9", "9", "9", "9">>

\* a hex character replaced by "g"; a group one short; a trailing character;
\* a "-" one place late; nothing at all
Remainders ==
    { Uuid1, Uuid2,
      [Uuid1 EXCEPT ![3] = "g"],
      SubSeq(Uuid1, 1, 35),
      Uuid1 \o <<"0">>,
      [Uuid1 EXCEPT ![9] = "8", ![10] = "-"],
      <<>> }

SanStrings ==
    {AuthorityPrefix \o r : r \in Remainders}
    \cup { [AuthorityPrefix EXCEPT ![1] = "U"] \o Uuid1,
           SubSeq(AuthorityPrefix, 1, 23) \o Uuid2,
           <<"c", "a">> }

\* --------------------------------------------------------------------- PEM
BadDer == "bad"
NilDer == "nil"

\* x509.ParseCertificate(der) succeeds; the certificate is named by its Raw bytes
Parses(der) == der # BadDer

Block(type, hdr, der) == [type |-> type, hdr |-> hdr, der |-> der]
Cert(der) == Block("CERTIFICATE", FALSE, der)
\* text that is no PEM block: pem.Decode skips it
Junk == Block("JUNK", FALSE, NilDer)
NilBlock == Block("nil", FALSE, NilDer)

\* the index of the first PEM block of b at or after i, 0 if there is none
RECURSIVE NextBlock(_, _)
NextBlock(b, i) ==
    IF i > Len(b) THEN 0
    ELSE IF b[i].type # "JUNK" THEN i
    ELSE NextBlock(b, i + 1)

\* pem.Decode(b): the next block and the rest, or no block and b itself
PemDecode(b) ==
    LET i == NextBlock(b, 1)
    IN  IF i = 0 THEN [block |-> NilBlock, rest |-> b]
        ELSE [block |-> b[i], rest |-> Drop(b, i)]

\* ------------------------------------------------------ getRootCertificate
\* sha256.Sum256(raw), one byte wide
Sum256(der) ==
    CASE der = "c1" -> <<161>> [] der = "c2" -> <<26>>
      [] der = "l1" -> <<170>> [] der = "l2" -> <<17>>
      [] OTHER -> <<0>>

HexDigit(n) ==
    CASE n < 10 -> <<"0", "1", "2", "3", "4", "5", "6", "7", "8", "9">>[n + 1]
      [] OTHER -> <<"a", "b", "c", "d", "e", "f">>[n - 9]

\* hex.EncodeToString(sum[:])
RECURSIVE HexEncode(_)
HexEncode(bytes) ==
    IF bytes = <<>> THEN <<>>
    ELSE <<HexDigit(Head(bytes) \div 16), HexDigit(Head(bytes) % 16)>>
         \o HexEncode(Tail(bytes))

ErrConnect == "error connecting"
ErrRootRpc == "error getting root certificate"
ErrRootParse == "error parsing certificate"
ErrFingerprint == "error verifying certificate: SHA256 fingerprint does not match"
ErrRootNotFound == "error getting root certificate: certificate not found"

\* the comparison with its sense inverted
FingerprintInverted(fingerprint, der) ==
    ~EqualFold(fingerprint, HexEncode(Sum256(der)))

\* strings.EqualFold(fingerprint, hex.EncodeToString(sum[:]))
FingerprintMatches(fingerprint, der) ==
    EqualFold(fingerprint, HexEncode(Sum256(der)))

\* the loop going on to the next block when the fingerprint does not match
RECURSIVE RootScanAnyMatch(_, _)
RootScanAnyMatch(b, fingerprint) ==
    IF Len(b) = 0 THEN [cert |-> NilDer, err |-> ErrRootNotFound]
    ELSE LET d == PemDecode(b)
         IN  IF d.block = NilBlock THEN [cert |-> NilDer, err |-> ErrRootNotFound]
             ELSE IF d.block.type # "CERTIFICATE" \/ d.block.hdr
                  THEN RootScanAnyMatch(d.rest, fingerprint)
             ELSE IF ~Parses(d.block.der)
                  THEN [cert |-> NilDer, err |-> ErrRootParse]
             ELSE IF ~FingerprintMatches(fingerprint, d.block.der)
                  THEN RootScanAnyMatch(d.rest, fingerprint)
             ELSE [cert |-> d.block.der, err |-> ""]

\* the loop over the blocks of resp.PemCertificate
RECURSIVE RootScan(_, _)
RootScan(b, fingerprint) ==
    IF Len(b) = 0 THEN [cert |-> NilDer, err |-> ErrRootNotFound]
    ELSE LET d == PemDecode(b)
         IN  IF d.block = NilBlock THEN [cert |-> NilDer, err |-> ErrRootNotFound]
             ELSE IF d.block.type # "CERTIFICATE" \/ d.block.hdr
                  THEN RootScan(d.rest, fingerprint)
             ELSE IF ~Parses(d.block.der)
                  THEN [cert |-> NilDer, err |-> ErrRootParse]
             ELSE IF ~FingerprintMatches(fingerprint, d.block.der)
                  THEN [cert |-> NilDer, err |-> ErrFingerprint]
             ELSE [cert |-> d.block.der, err |-> ""]

\* net: what the network does: [dial, ok, pem]
getRootCertificate(fingerprint, net) ==
    IF ~net.dial THEN [cert |-> NilDer, err |-> ErrConnect]
    ELSE IF ~net.ok THEN [cert |-> NilDer, err |-> ErrRootRpc]
    ELSE RootScan(net.pem, fingerprint)

NetDown == [dial |-> FALSE, ok |-> FALSE, pem |-> <<>>]
NetRpcFails == [dial |-> TRUE, ok |-> FALSE, pem |-> <<>>]
NetAnswers(p) == [dial |-> TRUE, ok |-> TRUE, pem |-> p]

\* the blocks a root-certificate response is made of
RootElems ==
    { Cert("c1"), Cert("c2"), Cert(BadDer),
      Block("CERTIFICATE", TRUE, "c1"), Block("OTHER", FALSE, "c1"), Junk }

MaxFp == 2
FpChars == {"a", "A", "1", "g"}
Fingerprints == BSeq(FpChars, MaxFp)

\* ------------------------------------------------------------------- login
\* a tls.Certificate: the presented list (raw bytes), the parsed leaf, the key
Identity(certificate, leaf, key) ==
    [Certificate |-> certificate, Leaf |-> leaf, PrivateKey |-> key]
NilCert == Identity(<<>>, NilDer, "nil")

ErrLogin == "error logging in"
ErrChainNotBundle ==
    "error decoding login response: pemCertificateChain is not a certificate bundle"
ErrChainParse == "error parsing login response"
ErrChainEmpty ==
    "error decoding login response: pemCertificateChain should not be empty"
ErrLeafParse == "error parsing pemCertificate"

\* the first loop with a block of another type skipped instead of rejected
RECURSIVE ChainScanSkipping(_, _)
ChainScanSkipping(rest, bundle) ==
    LET d == PemDecode(rest)
    IN  IF d.block = NilBlock THEN [bundle |-> bundle, err |-> ""]
        ELSE IF d.block.type # "CERTIFICATE"
             THEN ChainScanSkipping(d.rest, bundle)
        ELSE IF ~Parses(d.block.der)
             THEN [bundle |-> <<>>, err |-> ErrChainParse]
        ELSE ChainScanSkipping(d.rest, Append(bundle, d.block.der))

\* the first loop of login: the certificates of resp.PemCertificateChain
RECURSIVE ChainScan(_, _)
ChainScan(rest, bundle) ==
    LET d == PemDecode(rest)
    IN  IF d.block = NilBlock THEN [bundle |-> bundle, err |-> ""]
        ELSE IF d.block.type # "CERTIFICATE"
             THEN [bundle |-> <<>>, err |-> ErrChainNotBundle]
        ELSE IF ~Parses(d.block.der)
             THEN [bundle |-> <<>>, err |-> ErrChainParse]
        ELSE ChainScan(d.rest, Append(bundle, d.block.der))

\* the second loop of login: cert.Certificate and cert.Leaf from resp.PemCertificate
RECURSIVE LeafScan(_, _)
LeafScan(rest, cert) ==
    LET d == PemDecode(rest)
    IN  IF d.block = NilBlock THEN [cert |-> cert, err |-> ""]
        ELSE IF d.block.type = "CERTIFICATE"
             THEN IF ~Parses(d.block.der)
                  THEN [cert |-> NilCert, err |-> ErrLeafParse]
                  ELSE LeafScan(d.rest,
                           [cert EXCEPT !.Certificate = Append(@, d.block.der),
                                        !.Leaf = d.block.der])
        ELSE LeafScan(d.rest, cert)

\* for i := 0; i < last; i++ { cert.Certificate = append(cert.Certificate, bundle[i].Raw) }
AddIntermediates(certificate, bundle) ==
    certificate \o SubSeq(bundle, 1, Len(bundle) - 1)

InPool(p, der) == \E i \in 1..Len(p) : p[i] = der

\* an append that does not look for the certificate first
AddCertAlways(p, der) == Append(p, der)

\* rootCAs.AddCert(root): "Add root to the pool if it's not there yet"
AddCert(p, der) == IF InPool(p, der) THEN p ELSE Append(p, der)

\* a failure returned with no error
LoginFailedSilently(rootCAs, err) == [cert |-> NilCert, err |-> "", pool |-> rootCAs]

\* return nil, nil, err
LoginFailed(rootCAs, err) == [cert |-> NilCert, err |-> err, pool |-> rootCAs]

\* bundle[last] of a response login accepts
LoginRoot(net) ==
    LET c == ChainScan(net.chain, <<>>)
    IN  c.bundle[Len(c.bundle)]

\* the arguments of a call of login
LoginArgs(authority, tok, csr, signer, endpoint, rootCAs) ==
    [authority |-> authority, token |-> tok, csr |-> csr, signer |-> signer,
     endpoint |-> endpoint, rootCAs |-> rootCAs]

\* net: what the network and the server do: [dial, ok, leaf, chain]
login(signer, rootCAs, net) ==
    IF ~net.dial THEN LoginFailed(rootCAs, ErrConnect)
    ELSE IF ~net.ok THEN LoginFailed(rootCAs, ErrLogin)
    ELSE LET c == ChainScan(net.chain, <<>>)
         IN  IF c.err # "" THEN LoginFailed(rootCAs, c.err)
             ELSE IF Len(c.bundle) = 0 THEN LoginFailed(rootCAs, ErrChainEmpty)
             ELSE LET l == LeafScan(net.leaf, Identity(<<>>, NilDer, signer))
                  IN  IF l.err # "" THEN LoginFailed(rootCAs, l.err)
                      ELSE [cert |-> [l.cert EXCEPT !.Certificate =
                                          AddIntermediates(@, c.bundle)],
                            err |-> "",
                            pool |-> AddCert(rootCAs, c.bundle[Len(c.bundle)])]

LoginDown == [dial |-> FALSE, ok |-> FALSE, leaf |-> <<>>, chain |-> <<>>]
LoginRpcFails == [dial |-> TRUE, ok |-> FALSE, leaf |-> <<>>, chain |-> <<>>]
LoginAnswers(leaf, chain) == [dial |-> TRUE, ok |-> TRUE, leaf |-> leaf, chain |-> chain]

\* the blocks the two fields of a login response are made of
ChainElems == {Cert("c1"), Cert("c2"), Cert(BadDer), Block("OTHER", FALSE, "c1"), Junk}
LeafElems == {Cert("l1"), Cert("l2"), Cert(BadDer), Block("OTHER", FALSE, "l1")}

LoginNets ==
    {LoginDown, LoginRpcFails}
    \cup {LoginAnswers(l, c) : l \in BSeq(LeafElems, MaxLeaf), c \in BSeq(ChainElems, MaxChain)}

\* the pools a client can hold: the bootstrap root, then roots added one by one
Pools == {<<"c1">>, <<"c2">>, <<"c1", "c2">>, <<"c2", "c1">>}

\* --------------------------------------------------------------- url.Parse
\* net/url's Parse on the texts of the model, which are made of a letter, ":",
\* "/" and "%" (no "#", "?", "@", "[" or control character): the scheme is the
\* letters before the first ":", a text with a scheme and no leading "/" is
\* opaque, "//" opens the authority, whose host may end in ":" and digits, and
\* a "%" must be followed by two hex digits.
IsLetter(c) == c = "h"

RECURSIVE IndexFrom(_, _, _)
IndexFrom(s, c, i) ==
    IF i > Len(s) THEN 0 ELSE IF s[i] = c THEN i ELSE IndexFrom(s, c, i + 1)
Index(s, c) == IndexFrom(s, c, 1)

RECURSIVE LastIndexFrom(_, _, _)
LastIndexFrom(s, c, i) ==
    IF i < 1 THEN 0 ELSE IF s[i] = c THEN i ELSE LastIndexFrom(s, c, i - 1)
LastIndex(s, c) == LastIndexFrom(s, c, Len(s))

\* getScheme: [scheme, rest, err]
RECURSIVE GetScheme(_, _)
GetScheme(s, i) ==
    IF i > Len(s) THEN [scheme |-> <<>>, rest |-> s, err |-> FALSE]
    ELSE IF IsLetter(s[i]) THEN GetScheme(s, i + 1)
    ELSE IF s[i] = ":"
         THEN IF i = 1 THEN [scheme |-> <<>>, rest |-> <<>>, err |-> TRUE]
              ELSE [scheme |-> SubSeq(s, 1, i - 1), rest |-> Drop(s, i), err |-> FALSE]
    ELSE [scheme |-> <<>>, rest |-> s, err |-> FALSE]

\* unescape finds no "%" that is not followed by two hex digits
ValidEscapes(s) ==
    \A i \in 1..Len(s) :
        s[i] = "%" => (i + 2 <= Len(s) /\ IsHexChar(s[i + 1]) /\ IsHexChar(s[i + 2]))

\* validOptionalPort(host[LastIndex(host, ":"):])
ValidOptionalPort(port) ==
    port = <<>> \/ (port[1] = ":" /\ \A i \in 2..Len(port) : port[i] \in Digits)

\* parseAuthority, parseHost
ValidHost(host) ==
    /\ LastIndex(host, ":") # 0 => ValidOptionalPort(Drop(host, LastIndex(host, ":") - 1))
    /\ ValidEscapes(host)

UrlErr == [err |-> TRUE, Host |-> <<>>]
Url(host) == [err |-> FALSE, Host |-> host]

UrlParse(raw) ==
    LET g == GetScheme(raw, 1)
        rest == g.rest
        slash == Index(rest, "/")
        segment == IF slash = 0 THEN rest ELSE SubSeq(rest, 1, slash - 1)
    IN  IF g.err THEN UrlErr
        ELSE IF ~HasPrefix(rest, <<"/">>) /\ g.scheme # <<>> THEN Url(<<>>)
        ELSE IF ~HasPrefix(rest, <<"/">>) /\ Index(segment, ":") # 0 THEN UrlErr
        ELSE IF (g.scheme # <<>> \/ ~HasPrefix(rest, <<"/", "/", "/">>))
                /\ HasPrefix(rest, <<"/", "/">>)
             THEN LET after == Drop(rest, 2)
                      cut == Index(after, "/")
                      authority == IF cut = 0 THEN after ELSE SubSeq(after, 1, cut - 1)
                      path == IF cut = 0 THEN <<>> ELSE Drop(after, cut - 1)
                  IN  IF ~ValidHost(authority) \/ ~ValidEscapes(path) THEN UrlErr
                      ELSE Url(authority)
        ELSE IF ~ValidEscapes(rest) THEN UrlErr
        ELSE Url(<<>>)

\* ------------------------------------------------------------------ tokens
\* a token: whether jose.ParseSigned and UnsafeClaimsWithoutVerification accept
\* it, and the claims aud, sha and sans
Token(parse, claims, aud, sha, sans) ==
    [parse |-> parse, claims |-> claims, aud |-> aud, sha |-> sha, sans |-> sans]
NoToken == Token(FALSE, FALSE, <<>>, <<>>, <<>>)

ErrToken == "error parsing token"
ErrAud == "error parsing token: invalid aud claim"
ErrSha == "error parsing token: invalid sha claim"

Invalid(err) == [err |-> err, host |-> <<>>, authority |-> <<>>]

\* the validation with the length of the audience list not looked at
ValidateTokenFirstAud(tok) ==
    IF ~tok.parse \/ ~tok.claims THEN Invalid(ErrToken)
    ELSE IF Len(tok.aud) = 0 THEN Invalid(ErrAud)
    ELSE IF tok.sha = <<>> THEN Invalid(ErrSha)
    ELSE IF UrlParse(tok.aud[1]).err THEN Invalid(ErrAud)
    ELSE LET a == getAuthority(tok.sans)
         IN  IF a.err # "" THEN Invalid(a.err)
             ELSE [err |-> "", host |-> UrlParse(tok.aud[1]).Host, authority |-> a.id]

\* newLinkedCAClient up to the call of getAuthority: [err, host, authority]
ValidateToken(tok) ==
    IF ~tok.parse THEN Invalid(ErrToken)
    ELSE IF ~tok.claims THEN Invalid(ErrToken)
    ELSE IF Len(tok.aud) # 1 THEN Invalid(ErrAud)
    ELSE IF tok.sha = <<>> THEN Invalid(ErrSha)
    ELSE IF UrlParse(tok.aud[1]).err THEN Invalid(ErrAud)
    ELSE LET a == getAuthority(tok.sans)
         IN  IF a.err # "" THEN Invalid(a.err)
             ELSE [err |-> "", host |-> UrlParse(tok.aud[1]).Host, authority |-> a.id]

\* "h://h", "h", "h:h", ":", "//h:h"
AudValues ==
    { <<"h", ":", "/", "/", "h">>, <<"h">>, <<"h", ":", "h">>, <<":">>,
      <<"/", "/", "h", ":", "h">> }
MaxAud == 2
ShaValues == {<<>>, <<"A", "1">>, <<"1", "a">>}
SansValues ==
    { <<<<"c", "a">>, AuthorityPrefix \o Uuid1>>,
      <<AuthorityPrefix \o SubSeq(Uuid1, 1, 35)>>,
      <<>> }

Tokens ==
    {NoToken, Token(TRUE, FALSE, <<>>, <<>>, <<>>)}
    \cup {Token(TRUE, TRUE, a, h, n) :
            a \in BSeq(AudValues, MaxAud), h \in ShaValues, n \in SansValues}

\* --------------------------------------------------------- the environment
\* what the authority answers to the root request and to a login of the client
RootNets ==
    { NetDown, NetRpcFails, NetAnswers(<<>>), NetAnswers(<<Cert("c1")>>),
      NetAnswers(<<Cert("c2")>>), NetAnswers(<<Cert(BadDer)>>),
      NetAnswers(<<Junk, Block("CERTIFICATE", TRUE, "c2"), Cert("c1"), Cert("c2")>>) }

ClientLoginNets ==
    { LoginDown, LoginRpcFails,
      LoginAnswers(<<Cert("l1")>>, <<Cert("c1")>>),
      LoginAnswers(<<Cert("l2")>>, <<Cert("c1"), Cert("c2")>>),
      LoginAnswers(<<Cert("l1")>>, <<Cert("c2"), Junk, Cert("c1")>>),
      LoginAnswers(<<Cert("l2")>>, <<>>),
      LoginAnswers(<<Cert("l2")>>, <<Junk>>),
      LoginAnswers(<<Cert("l2")>>, <<Cert("c1"), Block("OTHER", FALSE, "c1")>>),
      LoginAnswers(<<Cert("l2")>>, <<Cert(BadDer)>>),
      LoginAnswers(<<Cert(BadDer)>>, <<Cert("c1")>>),
      LoginAnswers(<<>>, <<Cert("c1")>>),
      LoginAnswers(<<Cert("l1"), Cert("l2")>>, <<Cert("c1")>>) }

Readers == 1..MaxReaders

\* ------------------------------------------------------------------- state
NoCall == [op |-> "none", in |-> <<>>, out |-> <<>>, n |-> 0]
NoBoot ==
    [host |-> <<>>, authority |-> <<>>, signer |-> "nil", csr |-> FALSE,
     root |-> NilDer, cert |-> NilCert, err |-> "", client |-> FALSE]
NoFx == [keys |-> 0, conns |-> {}, logins |-> 0]
NoRenewer == [cert |-> NilCert, state |-> "none"]
NoRn == [pc |-> "idle", res |-> [cert |-> NilCert, err |-> ""], root |-> NilDer]
NoRd == [r \in Readers |-> [pc |-> "idle", got |-> NilCert, err |-> ""]]
NoArgs == <<>>
NoHist ==
    [fault |-> "", mismatch |-> FALSE, badChain |-> FALSE, faulty |-> FALSE,
     installed |-> NilCert, lastRenew |-> "none", req |-> NoArgs, roots |-> {}]

Init ==
    /\ call = NoCall
    /\ pc = "start"
    /\ token \in Tokens
    /\ boot = NoBoot
    /\ fx = NoFx
    /\ pool = <<>>
    /\ renewer = NoRenewer
    /\ rn = NoRn
    /\ rd = NoRd
    /\ hist = NoHist

\* ------------------------------------------- what the claims call a failure
CertBlocks(b) == SelectSeq(b, LAMBDA e : e.type = "CERTIFICATE")
PemBlocks(b) == SelectSeq(b, LAMBDA e : e.type # "JUNK")

\* the field holds a block of another type, or no block
ChainMalformed(chain) ==
    \/ PemBlocks(chain) = <<>>
    \/ \E i \in 1..Len(chain) : chain[i].type \notin {"CERTIFICATE", "JUNK"}

HasBadDer(b) == \E i \in 1..Len(b) : b[i].type = "CERTIFICATE" /\ ~Parses(b[i].der)

LoginFaulty(net) ==
    \/ ~net.dial
    \/ ~net.ok
    \/ ChainMalformed(net.chain)
    \/ HasBadDer(net.chain)
    \/ HasBadDer(net.leaf)

\* the block getRootCertificate decides on: the first header-less CERTIFICATE block
Selectable(b) == SelectSeq(b, LAMBDA e : e.type = "CERTIFICATE" /\ ~e.hdr)

Lower(s) == [i \in 1..Len(s) |-> Fold(s[i])]

DigestDiffers(fingerprint, der) == Lower(fingerprint) # HexEncode(Sum256(der))

RootMismatch(fingerprint, net) ==
    /\ net.dial
    /\ net.ok
    /\ Selectable(net.pem) # <<>>
    /\ Parses(Selectable(net.pem)[1].der)
    /\ DigestDiffers(fingerprint, Selectable(net.pem)[1].der)

RootFaulty(fingerprint, net) ==
    \/ ~net.dial
    \/ ~net.ok
    \/ Selectable(net.pem) = <<>>
    \/ ~Parses(Selectable(net.pem)[1].der)
    \/ DigestDiffers(fingerprint, Selectable(net.pem)[1].der)

WellFormedSan(s) ==
    /\ Len(s) = Len(AuthorityPrefix) + 36
    /\ SubSeq(s, 1, Len(AuthorityPrefix)) = AuthorityPrefix
    /\ \A i \in 1..36 :
          LET c == s[Len(AuthorityPrefix) + i]
          IN  IF i \in {9, 14, 19, 24} THEN c = "-" ELSE IsHexChar(c)

TokenFaulty(tok) ==
    \/ ~tok.parse
    \/ ~tok.claims
    \/ Len(tok.aud) # 1
    \/ tok.sha = <<>>
    \/ UrlParse(tok.aud[1]).err
    \/ ~\E i \in 1..Len(tok.sans) : WellFormedSan(tok.sans[i])

\* ------------------------------------------------------- newLinkedCAClient
ErrKey == "error generating key"
ErrCsr == "error creating certificate request"
ErrRenewer == "period must be greater than or equal to MinCertDuration"

Fail(b, err) == [b EXCEPT !.err = err]

\* lines 44-69: token parsing, claim validation, authority extraction
Validate ==
    /\ pc = "start"
    /\ LET v == ValidateToken(token)
       IN  IF v.err # ""
           THEN /\ pc' = "failed"
                /\ boot' = Fail(boot, v.err)
           ELSE /\ pc' = "keygen"
                /\ boot' = [boot EXCEPT !.host = v.host, !.authority = v.authority]
    /\ hist' = [hist EXCEPT !.fault = IF TokenFaulty(token) THEN "token" ELSE ""]
    /\ UNCHANGED <<call, token, fx, pool, renewer, rn, rd>>

\* lines 71-79: keyutil.GenerateDefaultSigner, x509util.CreateCertificateRequest
CreateCsr ==
    /\ pc = "keygen"
    /\ \E out \in {"keyfail", "csrfail", "ok"} :
          /\ fx' = [fx EXCEPT !.keys = IF out = "keyfail" THEN @ ELSE @ + 1]
          /\ pc' = IF out = "ok" THEN "root" ELSE "failed"
          /\ boot' = CASE out = "keyfail" -> Fail(boot, ErrKey)
                       [] out = "csrfail" -> Fail([boot EXCEPT !.signer = "k1"], ErrCsr)
                       [] OTHER -> [boot EXCEPT !.signer = "k1", !.csr = TRUE]
          /\ hist' = [hist EXCEPT !.fault = IF out = "ok" THEN "" ELSE "csr"]
    /\ UNCHANGED <<call, token, pool, renewer, rn, rd>>

\* the step after getRootCertificate with its error ignored
AfterRootUnchecked(r) ==
    /\ pc' = "login"
    /\ boot' = [boot EXCEPT !.root = r.cert]
    /\ pool' = IF r.cert = NilDer THEN <<>> ELSE AddCert(<<>>, r.cert)

\* lines 83-88 after the call: the error returned, or the pool seeded with the root
AfterRoot(r) ==
    IF r.err # ""
    THEN /\ pc' = "failed"
         /\ boot' = Fail(boot, r.err)
         /\ pool' = pool
    ELSE /\ pc' = "login"
         /\ boot' = [boot EXCEPT !.root = r.cert]
         /\ pool' = AddCert(<<>>, r.cert)

\* lines 81-88: no server answers at an empty endpoint
FetchRoot ==
    /\ pc = "root"
    /\ \E net \in IF boot.host = <<>> THEN {NetDown, NetRpcFails} ELSE RootNets :
          /\ AfterRoot(getRootCertificate(token.sha, net))
          /\ hist' = [hist EXCEPT
                        !.fault = IF RootFaulty(token.sha, net) THEN "root" ELSE "",
                        !.mismatch = RootMismatch(token.sha, net)]
    /\ fx' = [fx EXCEPT !.conns = @ \cup {"insecure"}]
    /\ UNCHANGED <<call, token, renewer, rn, rd>>

\* the first login with its error ignored: the construction goes on
FirstLoginUnchecked ==
    /\ pc = "login"
    /\ \E net \in ClientLoginNets :
          LET res == login(boot.signer, pool, net)
          IN  /\ pool' = res.pool
              /\ pc' = "renewer"
              /\ boot' = [boot EXCEPT !.cert = res.cert]
              /\ hist' = [hist EXCEPT
                            !.fault = IF LoginFaulty(net) THEN "login" ELSE "",
                            !.badChain = net.dial /\ net.ok /\ ChainMalformed(net.chain),
                            !.req = LoginArgs(boot.authority, token, boot.csr,
                                              boot.signer, boot.host, pool),
                            !.roots = IF res.cert = NilCert THEN @
                                      ELSE @ \cup {LoginRoot(net)}]
    /\ fx' = [fx EXCEPT !.conns = @ \cup {"login"}, !.logins = @ + 1]
    /\ UNCHANGED <<call, token, renewer, rn, rd>>

\* lines 90-94: the first login
FirstLogin ==
    /\ pc = "login"
    /\ \E net \in ClientLoginNets :
          LET res == login(boot.signer, pool, net)
          IN  /\ pool' = res.pool
              /\ IF res.err # ""
                 THEN /\ pc' = "failed"
                      /\ boot' = Fail(boot, res.err)
                 ELSE /\ pc' = "renewer"
                      /\ boot' = [boot EXCEPT !.cert = res.cert]
              /\ hist' = [hist EXCEPT
                            !.fault = IF LoginFaulty(net) THEN "login" ELSE "",
                            !.badChain = net.dial /\ net.ok /\ ChainMalformed(net.chain),
                            !.req = LoginArgs(boot.authority, token, boot.csr,
                                              boot.signer, boot.host, pool),
                            !.roots = IF res.cert = NilCert THEN @
                                      ELSE @ \cup {LoginRoot(net)}]
    /\ fx' = [fx EXCEPT !.conns = @ \cup {"login"}, !.logins = @ + 1]
    /\ UNCHANGED <<call, token, renewer, rn, rd>>

\* tlsutil.NewRenewer(cert, tlsConfig, fn): holds the first Identity, not started
RenewerNew(cert) == [cert |-> cert, state |-> "Created"]

\* lines 96-103: the renewer is refused when the leaf's validity is too short
NewRenewer ==
    /\ pc = "renewer"
    /\ \E ok \in BOOLEAN :
          IF ok
          THEN /\ pc' = "dial"
               /\ renewer' = RenewerNew(boot.cert)
               /\ boot' = boot
               /\ hist' = [hist EXCEPT !.fault = "", !.installed = boot.cert]
          ELSE /\ pc' = "failed"
               /\ renewer' = renewer
               /\ boot' = Fail(boot, ErrRenewer)
               /\ hist' = [hist EXCEPT !.fault = "renewer"]
    /\ UNCHANGED <<call, token, fx, pool, rn, rd>>

\* lines 105-115: grpc.Dial with the renewer's certificate, then the client
Dial ==
    /\ pc = "dial"
    /\ \E ok \in BOOLEAN :
          IF ok
          THEN /\ pc' = "done"
               /\ boot' = [boot EXCEPT !.client = TRUE]
               /\ hist' = [hist EXCEPT !.fault = ""]
          ELSE /\ pc' = "failed"
               /\ boot' = Fail(boot, ErrConnect)
               /\ hist' = [hist EXCEPT !.fault = "dial"]
    /\ fx' = [fx EXCEPT !.conns = @ \cup {"mtls"}]
    /\ UNCHANGED <<call, token, pool, renewer, rn, rd>>

\* ---------------------------------------------------- the renewer, running
\* Renewer.Run: the schedule is launched
RenewerRun(r) == [r EXCEPT !.state = "Active"]

\* Renewer.Stop: the schedule is halted
RenewerStop(r) == [r EXCEPT !.state = "Stopped"]

\* the Identity is replaced as a whole, in one critical section
SetCertificate(r, cert) == [r EXCEPT !.cert = cert]

\* renewCertificate after RenewFunc: a failure leaves the Identity in place
Renewed(r, res) == IF res.err # "" THEN r ELSE SetCertificate(r, res.cert)

\* Renewer.GetClientCertificate: the current Identity, read in one critical section
RenewerGetClientCertificate == renewer.cert

\* the certificate of the first login, set once in the tls.Config
FirstCertificate == boot.cert

\* line 103: tlsConfig.GetClientCertificate = renewer.GetClientCertificate
GetClientCertificate == RenewerGetClientCertificate

\* lines 118-120
Run ==
    /\ pc = "done"
    /\ renewer.state = "Created"
    /\ renewer' = RenewerRun(renewer)
    /\ UNCHANGED <<call, pc, token, boot, fx, pool, rn, rd, hist>>

\* lines 122-124
Stop ==
    /\ pc = "done"
    /\ renewer.state = "Active"
    /\ renewer' = RenewerStop(renewer)
    /\ UNCHANGED <<call, pc, token, boot, fx, pool, rn, rd, hist>>

\* the schedule fires: renewCertificate begins
RenewFire ==
    /\ pc = "done"
    /\ renewer.state = "Active"
    /\ rn.pc = "idle"
    /\ rn' = [rn EXCEPT !.pc = "login"]
    /\ UNCHANGED <<call, pc, token, boot, fx, pool, renewer, rd, hist>>

\* the renewal callback with a key generated for each renewal
RenewLoginFreshKey ==
    /\ rn.pc = "login"
    /\ \E net \in ClientLoginNets :
          LET res == login("k2", pool, net)
          IN  /\ rn' = IF res.cert = NilCert
                       THEN [pc |-> "result", res |-> [cert |-> res.cert, err |-> res.err],
                             root |-> NilDer]
                       ELSE [pc |-> "addcert", res |-> [cert |-> res.cert, err |-> res.err],
                             root |-> LoginRoot(net)]
              /\ hist' = [hist EXCEPT
                            !.badChain = net.dial /\ net.ok /\ ChainMalformed(net.chain),
                            !.faulty = LoginFaulty(net),
                            !.req = LoginArgs(boot.authority, token, boot.csr,
                                              "k2", boot.host, pool)]
    /\ fx' = [fx EXCEPT !.keys = @ + 1]
    /\ UNCHANGED <<call, pc, token, boot, pool, renewer, rd>>

\* lines 97-99: the renewal callback, login with the values of the construction,
\* up to its last statement: a failure has returned, a success stands before
\* rootCAs.AddCert(bundle[last]), which no lock of the client covers
RenewLogin ==
    /\ rn.pc = "login"
    /\ \E net \in ClientLoginNets :
          LET res == login(boot.signer, pool, net)
          IN  /\ rn' = IF res.cert = NilCert
                       THEN [pc |-> "result", res |-> [cert |-> res.cert, err |-> res.err],
                             root |-> NilDer]
                       ELSE [pc |-> "addcert", res |-> [cert |-> res.cert, err |-> res.err],
                             root |-> LoginRoot(net)]
              /\ hist' = [hist EXCEPT
                            !.badChain = net.dial /\ net.ok /\ ChainMalformed(net.chain),
                            !.faulty = LoginFaulty(net),
                            !.req = LoginArgs(boot.authority, token, boot.csr,
                                              boot.signer, boot.host, pool)]
    /\ UNCHANGED <<call, pc, token, boot, fx, pool, renewer, rd>>

\* lines 484-489 in the renewal: the root joins the pool the channel verifies
\* its handshakes with, and login returns
RenewAddCert ==
    /\ rn.pc = "addcert"
    /\ pool' = AddCert(pool, rn.root)
    /\ rn' = [rn EXCEPT !.pc = "result"]
    /\ hist' = [hist EXCEPT !.roots = @ \cup {rn.root}]
    /\ UNCHANGED <<call, pc, token, boot, fx, renewer, rd>>

\* renewCertificate ends: the Identity is replaced or kept, the schedule re-armed
RenewFinish ==
    /\ rn.pc = "result"
    /\ renewer' = Renewed(renewer, rn.res)
    /\ rn' = NoRn
    /\ hist' = [hist EXCEPT
                  !.installed = IF rn.res.err # "" THEN @ ELSE rn.res.cert,
                  !.lastRenew = IF rn.res.err # "" THEN "failed" ELSE "ok"]
    /\ UNCHANGED <<call, pc, token, boot, fx, pool, rd>>

ErrRpc == "rpc error"

\* an RPC of the client opens a connection: the handshake begins, and verifies
\* the server against RootCAs, the pool of lines 87-88 (tls.Config of 487-489)
Handshake(r) ==
    /\ pc = "done"
    /\ rd[r].pc = "idle"
    /\ rd' = [rd EXCEPT ![r].pc = "handshake", ![r].err = ""]
    /\ UNCHANGED <<call, pc, token, boot, fx, pool, renewer, rn, hist>>

\* the handshake asks for the client certificate
Present(r) ==
    /\ rd[r].pc = "handshake"
    /\ rd' = [rd EXCEPT ![r].pc = "rpc", ![r].got = GetClientCertificate]
    /\ UNCHANGED <<call, pc, token, boot, fx, pool, renewer, rn, hist>>

\* lines 126-311: the RPC returns what the channel returned
Return(r) ==
    /\ rd[r].pc = "rpc"
    /\ \E e \in {"", ErrRpc} :
          rd' = [rd EXCEPT ![r] = [pc |-> "idle", got |-> NilCert, err |-> e]]
    /\ UNCHANGED <<call, pc, token, boot, fx, pool, renewer, rn, hist>>

Next ==
    \/ Validate
    \/ CreateCsr
    \/ FetchRoot
    \/ FirstLogin
    \/ NewRenewer
    \/ Dial
    \/ Run
    \/ Stop
    \/ RenewFire
    \/ RenewLogin
    \/ RenewAddCert
    \/ RenewFinish
    \/ \E r \in Readers : Handshake(r)
    \/ \E r \in Readers : Present(r)
    \/ \E r \in Readers : Return(r)

Spec == Init /\ [][Next]_vars

\* the timer of the schedule fires
SpecFair ==
    /\ Spec
    /\ WF_vars(RenewFire)
    /\ WF_vars(RenewLogin)
    /\ WF_vars(RenewAddCert)
    /\ WF_vars(RenewFinish)

\* ------------------------------------------------ the functions on their own
MaxLogins == 2

Off ==
    /\ pc = "off"
    /\ token = NoToken
    /\ boot = NoBoot
    /\ fx = NoFx
    /\ renewer = NoRenewer
    /\ rn = NoRn
    /\ rd = NoRd
    /\ hist = NoHist

Called(op, in) == [op |-> op, in |-> in, out |-> <<>>, n |-> 0]

\* getAuthority on every list of SANs
InitAuthority ==
    /\ Off
    /\ pool = <<>>
    /\ \E sans \in BSeq(SanStrings, MaxSans) : call = Called("getAuthority", sans)

CallAuthority ==
    /\ call.op = "getAuthority"
    /\ call.n = 0
    /\ call' = [call EXCEPT !.out = getAuthority(call.in), !.n = 1]
    /\ UNCHANGED <<pc, token, boot, fx, pool, renewer, rn, rd, hist>>

SpecAuthority == InitAuthority /\ [][CallAuthority]_vars

\* getRootCertificate on every fingerprint and every answer of the network
InitRoot ==
    /\ Off
    /\ pool = <<>>
    /\ \E f \in Fingerprints :
       \E net \in {NetDown, NetRpcFails} \cup {NetAnswers(p) : p \in BSeq(RootElems, MaxPem)} :
          call = Called("getRootCertificate", [fingerprint |-> f, net |-> net])

CallRoot ==
    /\ call.op = "getRootCertificate"
    /\ call.n = 0
    /\ call' = [call EXCEPT !.out = getRootCertificate(call.in.fingerprint, call.in.net),
                            !.n = 1]
    /\ UNCHANGED <<pc, token, boot, fx, pool, renewer, rn, rd, hist>>

SpecRoot == InitRoot /\ [][CallRoot]_vars

\* login, called again and again with a pool it shares with its earlier calls
InitLogin ==
    /\ Off
    /\ pool \in Pools
    /\ \E net \in LoginNets : call = Called("login", [net |-> net, pool |-> pool])

CallLogin ==
    /\ call.op = "login"
    /\ call.n < MaxLogins
    /\ LET res == login("k1", pool, call.in.net)
       IN  /\ pool' = res.pool
           /\ call' = [call EXCEPT !.out = [cert |-> res.cert, err |-> res.err],
                                   !.n = @ + 1]
    /\ UNCHANGED <<pc, token, boot, fx, renewer, rn, rd, hist>>

SpecLogin == InitLogin /\ [][CallLogin]_vars

Range(p) == {p[i] : i \in 1..Len(p)}

\* ------------------------------------------------- Claims.ToCertificates
\* a *provisioner.Duration: nil, or &Duration{Duration: d}
NilDur == [nil |-> TRUE]
Duration(d) == [Duration |-> d]

\* the value of the digits of s from position i on, and the position after them
RECURSIVE LeadingInt(_, _, _)
LeadingInt(s, i, acc) ==
    IF i <= Len(s) /\ s[i] \in {"1", "2"}
    THEN LeadingInt(s, i + 1, acc * 10 + (IF s[i] = "1" THEN 1 ELSE 2))
    ELSE [val |-> acc, next |-> i]

\* minutes in a unit of time.ParseDuration
UnitMinutes(u) == IF u = "h" THEN 60 ELSE 1

\* time.ParseDuration from position i on: digits and a unit, again and again
RECURSIVE ParseDurationFrom(_, _, _)
ParseDurationFrom(s, i, acc) ==
    IF i > Len(s) THEN [d |-> acc, err |-> FALSE]
    ELSE LET n == LeadingInt(s, i, 0)
         IN  IF n.next = i THEN [d |-> 0, err |-> TRUE]
             ELSE IF n.next > Len(s) \/ s[n.next] \notin {"h", "m"}
                  THEN [d |-> 0, err |-> TRUE]
             ELSE ParseDurationFrom(s, n.next + 1,
                                    acc + n.val * UnitMinutes(s[n.next]))

\* time.ParseDuration(s), in minutes
ParseDuration(s) ==
    IF s = <<>> THEN [d |-> 0, err |-> TRUE] ELSE ParseDurationFrom(s, 1, 0)

\* provisioner.NewDuration(s): a *Duration, or an error and nil
NewDuration(s) ==
    LET p == ParseDuration(s)
    IN  IF p.err THEN [dur |-> NilDur, err |-> TRUE]
        ELSE [dur |-> Duration(p.d), err |-> FALSE]

DurKeys ==
    <<"minTLSDur", "maxTLSDur", "defaultTLSDur",
      "minSSHUserDur", "maxSSHUserDur", "defaultSSHUserDur",
      "minSSHHostDur", "maxSSHHostDur", "defaultSSHHostDur">>

\* the map durs: every entry with its string and a nil duration
Durs(c) ==
    [k \in Range(DurKeys) |->
        [durStr |-> CASE k = "minTLSDur" -> c.X509.Durations.Min
                      [] k = "maxTLSDur" -> c.X509.Durations.Max
                      [] k = "defaultTLSDur" -> c.X509.Durations.Default
                      [] k = "minSSHUserDur" -> c.SSH.UserDurations.Min
                      [] k = "maxSSHUserDur" -> c.SSH.UserDurations.Max
                      [] k = "defaultSSHUserDur" -> c.SSH.UserDurations.Default
                      [] k = "minSSHHostDur" -> c.SSH.HostDurations.Min
                      [] k = "maxSSHHostDur" -> c.SSH.HostDurations.Max
                      [] OTHER -> c.SSH.HostDurations.Default,
         dur |-> NilDur]]

NilClaims == "nil"

\* for k, v := range durs, in the order the map is iterated this time: v is a
\* copy of the entry, and the assignment to v.dur leaves durs[k] as it was
RECURSIVE RangeDurs(_, _, _)
RangeDurs(durs, order, i) ==
    IF i > Len(order) THEN [durs |-> durs, v |-> NilDur, err |-> ""]
    ELSE LET k == order[i]
             n == NewDuration(durs[k].durStr)
             v == [durs[k] EXCEPT !.dur = n.dur]
         IN  IF n.err THEN [durs |-> durs, v |-> v, err |-> k]
             ELSE RangeDurs(durs, order, i + 1)

ToCertificates(c, order) ==
    LET r == RangeDurs(Durs(c), order, 1)
    IN  IF r.err # "" THEN [claims |-> NilClaims, err |-> r.err]
        ELSE [claims |->
                [MinTLSDur |-> r.durs["minTLSDur"].dur,
                 MaxTLSDur |-> r.durs["maxTLSDur"].dur,
                 DefaultTLSDur |-> r.durs["defaultTLSDur"].dur,
                 DisableRenewal |-> c.DisableRenewal,
                 MinUserSSHDur |-> r.durs["minSSHUserDur"].dur,
                 MaxUserSSHDur |-> r.durs["maxSSHUserDur"].dur,
                 DefaultUserSSHDur |-> r.durs["defaultSSHUserDur"].dur,
                 MinHostSSHDur |-> r.durs["minSSHHostDur"].dur,
                 MaxHostSSHDur |-> r.durs["maxSSHHostDur"].dur,
                 DefaultHostSSHDur |-> r.durs["defaultSSHHostDur"].dur,
                 EnableSSHCA |-> c.SSH.Enabled],
              err |-> ""]

\* the strings of the claims: an hour, two minutes and a half, no number
DurStrings == {<<"1", "h">>, <<"2", "m">>, <<"h">>}
Durations == [Min : DurStrings, Max : DurStrings, Default : DurStrings]

\* the orders a map of nine keys is iterated in: the rotations of the keys
Rotate(q, n) == [i \in 1..Len(q) |-> q[((i + n - 1) % Len(q)) + 1]]
DurOrders == {Rotate(DurKeys, n) : n \in 0..(Len(DurKeys) - 1)}

InitClaims ==
    /\ Off
    /\ pool = <<>>
    /\ \E x \in Durations, u \in Durations, h \in Durations :
          call = Called("ToCertificates",
                        [X509 |-> [Durations |-> x],
                         SSH |-> [Enabled |-> TRUE, UserDurations |-> u,
                                  HostDurations |-> h],
                         DisableRenewal |-> FALSE])

CallClaims ==
    /\ call.op = "ToCertificates"
    /\ call.n = 0
    /\ \E order \in DurOrders :
          call' = [call EXCEPT !.out = ToCertificates(call.in, order), !.n = 1]
    /\ UNCHANGED <<pc, token, boot, fx, pool, renewer, rn, rd, hist>>

SpecClaims == InitClaims /\ [][CallClaims]_vars


\* --------------------------------------------------------------- MgmtClient
MaxSends == 3

\* a RetryFunc: nil, or a function of the status code, given by the codes it accepts
NilFunc == [set |-> FALSE, accepts |-> {}]
RetryFunc(codes) == [set |-> TRUE, accepts |-> codes]
RetryFuncs == {NilFunc, RetryFunc({}), RetryFunc({401}), RetryFunc({400, 401, 500})}

Statuses == {200, 399, 400, 401, 500}

MgmtMethods ==
    {"GetAdmin", "CreateAdmin", "RemoveAdmin", "UpdateAdmin", "GetAdmins", "GetProvisioners"}
\* the methods that marshal a body, build a request, read a JSON answer
Marshals == {"CreateAdmin", "UpdateAdmin"}
NewRequests == {"RemoveAdmin", "UpdateAdmin"}
ReadsJSON == MgmtMethods \ {"RemoveAdmin"}

ErrMarshal == "error marshaling request"
ErrNewRequest == "create request failed"
ErrClient == "client request failed"
ErrStatus == "readError(resp.Body)"
ErrReading == "error reading"

\* a method under way: where it stands, its local retried, the transports set
\* on the client, the status codes received, what it returned
MgmtState(at, retried, swaps, statuses, ret) ==
    [pc |-> at, retried |-> retried, swaps |-> swaps, statuses |-> statuses, ret |-> ret]

\* c.retryOnError(r); env: what o.apply and o.getTransport do
retryOnError(retryFunc, st, code, env) ==
    IF retryFunc.set
    THEN IF code \in retryFunc.accepts
         THEN IF env = "apply fails" THEN [retry |-> FALSE, st |-> st]
              ELSE IF env = "getTransport fails" THEN [retry |-> FALSE, st |-> st]
              ELSE [retry |-> TRUE, st |-> [st EXCEPT !.swaps = @ + 1]]
         ELSE [retry |-> FALSE, st |-> st]
    ELSE [retry |-> FALSE, st |-> st]

MgmtReturn(st, ret) == [st EXCEPT !.pc = "returned", !.ret = ret]

\* the method after a response, with retried left out of the test
AfterResponseRetrying(method, retryFunc, st, code, env, json) ==
    IF code >= 400
    THEN LET r == retryOnError(retryFunc, st, code, env)
         IN  IF r.retry
             THEN [r.st EXCEPT !.retried = TRUE, !.pc = "retry"]
             ELSE MgmtReturn(r.st, ErrStatus)
    ELSE IF method \in ReadsJSON /\ ~json
    THEN MgmtReturn(st, ErrReading)
    ELSE MgmtReturn(st, "")

\* if resp.StatusCode >= 400 { if !retried && c.retryOnError(resp) { ... goto retry } ... }
AfterResponse(method, retryFunc, st, code, env, json) ==
    IF code >= 400
    THEN IF ~st.retried
         THEN LET r == retryOnError(retryFunc, st, code, env)
              IN  IF r.retry
                  THEN [r.st EXCEPT !.retried = TRUE, !.pc = "retry"]
                  ELSE MgmtReturn(r.st, ErrStatus)
         ELSE MgmtReturn(st, ErrStatus)
    ELSE IF method \in ReadsJSON /\ ~json
    THEN MgmtReturn(st, ErrReading)
    ELSE MgmtReturn(st, "")

InitMgmt ==
    /\ Off
    /\ pool = <<>>
    /\ \E m \in MgmtMethods, f \in RetryFuncs :
          call = [op |-> m, in |-> [retryFunc |-> f],
                  out |-> MgmtState("begin", FALSE, 0, <<>>, ""), n |-> 0]

\* the method up to its label retry: json.Marshal, http.NewRequest
MgmtBegin ==
    /\ call.op \in MgmtMethods
    /\ call.out.pc = "begin"
    /\ \E out \in {"ok"} \cup (IF call.op \in Marshals THEN {ErrMarshal} ELSE {})
                        \cup (IF call.op \in NewRequests THEN {ErrNewRequest} ELSE {}) :
          call' = [call EXCEPT !.out = IF out = "ok" THEN [@ EXCEPT !.pc = "retry"]
                                       ELSE MgmtReturn(@, out)]
    /\ UNCHANGED <<pc, token, boot, fx, pool, renewer, rn, rd, hist>>

\* from the label retry: the request is sent (call.n counts the sends), and the
\* method goes back to the label or returns
MgmtRequest ==
    /\ call.op \in MgmtMethods
    /\ call.out.pc = "retry"
    /\ call.n < MaxSends
    /\ \/ call' = [call EXCEPT !.n = @ + 1, !.out = MgmtReturn(@, ErrClient)]
       \/ \E code \in Statuses, json \in BOOLEAN,
             env \in {"ok", "apply fails", "getTransport fails"} :
             call' = [call EXCEPT
                        !.n = @ + 1,
                        !.out = AfterResponse(call.op, call.in.retryFunc,
                                    [@ EXCEPT !.statuses = Append(@, code)],
                                    code, env, json)]
    /\ UNCHANGED <<pc, token, boot, fx, pool, renewer, rn, rd, hist>>

SpecMgmt == InitMgmt /\ [][MgmtBegin \/ MgmtRequest]_vars

\* ------------------------------------------------------------------ claims
Count(p, der) == Cardinality({i \in 1..Len(p) : p[i] = der})
CertDers(b) == [i \in 1..Len(CertBlocks(b)) |-> CertBlocks(b)[i].der]

\* C1: getRootCertificate never returns a certificate whose SHA-256 digest (hex,
\* compared without regard to case) differs from the expected fingerprint: when
\* the digest of the certificate it selects differs, it fails with the
\* fingerprint-mismatch error and returns no certificate.
C1_RootMatchesFingerprint ==
    (call.op = "getRootCertificate" /\ call.n = 1) =>
        /\ call.out.cert # NilDer =>
              /\ ~DigestDiffers(call.in.fingerprint, call.out.cert)
              /\ call.out.err = ""
        /\ RootMismatch(call.in.fingerprint, call.in.net) =>
              /\ call.out.err = ErrFingerprint
              /\ call.out.cert = NilDer

\* a mismatch on the selected certificate, although a later block would have matched
C1_Witness ==
    /\ call.op = "getRootCertificate"
    /\ call.n = 1
    /\ RootMismatch(call.in.fingerprint, call.in.net)
    /\ \E i \in 1..Len(call.in.net.pem) :
          /\ call.in.net.pem[i] = Cert("c1")
          /\ ~DigestDiffers(call.in.fingerprint, "c1")
    /\ call.out.err = ErrFingerprint

\* C3: a login response with one leaf and the chain [c1, ..., cn], n >= 1, gives
\* the certificate list leaf, c1, ..., c(n-1), and adds cn to the pool unless it
\* is there: after any number of logins the pool holds cn exactly once.
C3_LoginAssembles ==
    (/\ call.op = "login"
     /\ call.n >= 1
     /\ ~LoginFaulty(call.in.net)
     /\ Len(CertBlocks(call.in.net.leaf)) = 1) =>
        LET chain == CertDers(call.in.net.chain)
            n == Len(chain)
            leaf == CertDers(call.in.net.leaf)[1]
        IN  /\ call.out.err = ""
            /\ call.out.cert.Certificate = <<leaf>> \o SubSeq(chain, 1, n - 1)
            /\ call.out.cert.Leaf = leaf
            /\ Count(pool, chain[n]) = 1
            /\ pool = IF InPool(call.in.pool, chain[n])
                      THEN call.in.pool
                      ELSE Append(call.in.pool, chain[n])

\* the same three-entry chain assembled twice, its root new to the pool
C3_Witness ==
    /\ call.op = "login"
    /\ call.n = 2
    /\ ~LoginFaulty(call.in.net)
    /\ Len(CertBlocks(call.in.net.leaf)) = 1
    /\ Len(CertDers(call.in.net.chain)) = 3
    /\ ~InPool(call.in.pool, CertDers(call.in.net.chain)[3])
    /\ call.out.err = ""

ChainErrors == {ErrChainNotBundle, ErrChainEmpty, ErrChainParse}

\* C2: when a step of newLinkedCAClient fails, construction is over and no client
\* is returned; when the fetched root's digest does not match the sha claim, no
\* login is attempted and no channel with the client's certificate is dialled.
C2_BootstrapAllOrNothing ==
    /\ hist.fault # "" => pc = "failed"
    /\ pc = "failed" =>
          /\ ~boot.client
          /\ boot.err # ""
          /\ renewer.state \in {"none", "Created"}
          /\ \A r \in Readers : rd[r].pc = "idle"
    /\ boot.client => (pc = "done" /\ boot.err = "")
    /\ hist.mismatch =>
          /\ pc = "failed"
          /\ fx.logins = 0
          /\ fx.conns = {"insecure"}

\* the authority answered with a root whose digest is not the sha claim
C2_Witness ==
    /\ hist.mismatch
    /\ pc = "failed"
    /\ boot.err = ErrFingerprint
    /\ ~boot.client

\* C4: a login whose certificate-chain field holds a block of another type, or no
\* block, fails with an error and returns no certificate; that login leaves the
\* Identity of the client, and the pool, as they were.
C4_MalformedChainStates ==
    /\ (rn.pc = "result" /\ hist.badChain) =>
          /\ rn.res.err \in ChainErrors
          /\ rn.res.cert = NilCert
    /\ (pc \notin {"start", "keygen", "root", "login"} /\ renewer.state = "none"
        /\ hist.badChain) =>
          /\ pc = "failed"
          /\ boot.err \in ChainErrors
          /\ boot.cert = NilCert

C4_MalformedChainRejected ==
    /\ []C4_MalformedChainStates
    /\ [][(/\ hist'.badChain
            /\ \/ (rn.pc = "login" /\ rn'.pc = "result")
               \/ (pc = "login" /\ pc' # "login")) =>
             /\ GetClientCertificate' = GetClientCertificate
             /\ renewer' = renewer
             /\ pool' = pool
             /\ boot'.cert = boot.cert]_vars

\* a renewal's login got a malformed chain and has returned, the Identity in place
C4_Witness ==
    /\ renewer.state = "Active"
    /\ rn.pc = "result"
    /\ hist.badChain
    /\ rn.res.err = ErrChainEmpty
    /\ GetClientCertificate = hist.installed
    /\ GetClientCertificate # NilCert

C6_FailedRenewalRetried ==
    /\ [][(rn.pc = "result" /\ hist.faulty) =>
             GetClientCertificate' = GetClientCertificate]_vars
    /\ [][GetClientCertificate' # GetClientCertificate =>
             \/ (rn.pc = "result" /\ ~hist.faulty /\ rn'.pc = "idle")
             \/ (pc = "renewer" /\ pc' = "dial")]_vars
    /\ [](\A r \in Readers : rd[r].err \in {"", ErrRpc})
    /\ (hist.lastRenew = "failed" /\ rn.pc = "idle" /\ renewer.state = "Active")
          ~> (rn.pc = "login" \/ renewer.state = "Stopped")

\* a renewal failed, and the next attempt has begun with the earlier Identity in place
C6_Witness ==
    /\ renewer.state = "Active"
    /\ hist.lastRenew = "failed"
    /\ rn.pc = "login"
    /\ GetClientCertificate = hist.installed
    /\ GetClientCertificate # NilCert

\* C7: a token whose audience list has no element, or more than one, is refused
\* with the invalid-aud error before a key is generated or a connection opened.
C7_AudienceCount ==
    (pc # "start" /\ token.parse /\ token.claims /\ Len(token.aud) # 1) =>
        /\ pc = "failed"
        /\ boot.err = ErrAud
        /\ ~boot.client
        /\ fx = NoFx
        /\ boot.signer = "nil"

\* a token with two good audiences, and nothing else wrong with it, was refused
C7_Witness ==
    /\ pc = "failed"
    /\ Len(token.aud) = 2
    /\ \A i \in 1..2 : UrlParse(token.aud[i]) = Url(<<"h">>)
    /\ token.sha # <<>>
    /\ getAuthority(token.sans).err = ""
    /\ boot.err = ErrAud

\* C8: a token with one audience value that is no parseable URL with a host
\* (a parseable URL with an empty host included) is refused with the invalid-aud error.
C8_HostlessAudienceRefused ==
    (/\ pc # "start"
     /\ token.parse
     /\ token.claims
     /\ Len(token.aud) = 1
     /\ token.sha # <<>>
     /\ (UrlParse(token.aud[1]).err \/ UrlParse(token.aud[1]).Host = <<>>)) =>
        (pc = "failed" /\ boot.err = ErrAud)

\* C9: getAuthority returns the UUID of the first SAN that is the prefix
\* "urn:smallstep:authority:" followed by an 8-4-4-4-12 hex UUID, and fails with
\* the invalid-sans error exactly when the list holds no such SAN.
C9_AuthorityFirstWellFormed ==
    (call.op = "getAuthority" /\ call.n = 1) =>
        LET good == {i \in 1..Len(call.in) : WellFormedSan(call.in[i])}
        IN  IF good = {}
            THEN call.out = [id |-> <<>>, err |-> ErrSans]
            ELSE LET first == CHOOSE i \in good : \A j \in good : i <= j
                 IN  /\ call.out.err = ""
                     /\ AuthorityPrefix \o call.out.id = call.in[first]

\* two well-formed SANs with different UUIDs after a malformed one
C9_Witness ==
    /\ call.op = "getAuthority"
    /\ call.n = 1
    /\ Len(call.in) = 3
    /\ ~WellFormedSan(call.in[1])
    /\ HasPrefix(call.in[1], AuthorityPrefix)
    /\ WellFormedSan(call.in[2])
    /\ WellFormedSan(call.in[3])
    /\ call.in[2] # call.in[3]
    /\ call.out.id = Drop(call.in[2], 24)

\* C11: the controller is started by exactly one synchronous login, the first
\* login of the construction, which populates the first Identity; Run then moves
\* it from Created (Uninitialized) to Active and launches the renewal schedule
\* without another login. When the first login fails the construction ends
\* there: no controller exists, none becomes Active and no schedule runs.
C11_StartStates ==
    /\ renewer.state # "none" =>
          /\ fx.logins = 1
          /\ boot.cert # NilCert
          /\ pc \in {"dial", "done", "failed"}
    /\ renewer.state \in {"Active", "Stopped"} => pc = "done" /\ boot.client
    /\ rn.pc # "idle" => renewer.state \in {"Active", "Stopped"}
    /\ (renewer.state = "Active" /\ rn.pc = "idle") => ENABLED RenewFire
    /\ renewer.state \in {"none", "Created"} =>
          /\ ~ENABLED RenewFire
          /\ hist.lastRenew = "none"
    /\ (pc = "failed" /\ hist.fault = "login") =>
          /\ renewer = NoRenewer
          /\ boot.cert = NilCert
          /\ ~boot.client
          /\ ~ENABLED Run

C11_StartOneLogin ==
    /\ []C11_StartStates
    /\ [][(pc = "login" /\ pc' # "login") =>
              /\ fx.logins = 0
              /\ fx'.logins = 1
              /\ IF hist'.fault = "login"
                 THEN pc' = "failed" /\ boot'.err # "" /\ boot'.cert = NilCert
                 ELSE pc' = "renewer" /\ boot'.cert.PrivateKey = boot.signer]_vars
    /\ [][(renewer.state = "none" /\ renewer'.state # "none") =>
              /\ renewer'.state = "Created"
              /\ renewer'.cert = boot.cert
              /\ hist.fault = ""]_vars
    /\ [][(renewer.state # "Active" /\ renewer'.state = "Active") =>
              /\ renewer.state = "Created"
              /\ renewer'.cert = boot.cert
              /\ fx' = fx
              /\ pool' = pool
              /\ rn' = rn]_vars

\* the started controller, its schedule fired for the first renewal
C11_Witness ==
    /\ renewer.state = "Active"
    /\ fx.logins = 1
    /\ renewer.cert = boot.cert
    /\ rn.pc = "login"

\* C12: the trust pool is never mutated concurrently with another access: no
\* reachable state has a login appending a root to the pool while a handshake
\* of the channel (or another login) reads or appends the same pool.
C12_PoolAccessExclusive ==
    ~ /\ rn.pc = "addcert"
      /\ ~InPool(pool, rn.root)
      /\ \E r \in Readers : rd[r].pc = "handshake"

\* C13: every renewal calls login with the authority id, token, signer and CSR
\* of the construction, the ones of the first login, and with the current
\* pool, which holds the bootstrap root and the root of every earlier
\* successful login; no key is generated after the construction, and every
\* Identity installed or presented is bound to the one key.
C13_SameKeyStates ==
    /\ fx.keys <= 1
    /\ \A c \in {boot.cert, renewer.cert, hist.installed, rn.res.cert} :
          c # NilCert => c.PrivateKey = boot.signer /\ fx.keys = 1
    /\ \A r \in Readers : rd[r].got # NilCert => rd[r].got.PrivateKey = boot.signer
    /\ pool # <<>> => Range(pool) = {boot.root} \cup hist.roots

C13_RenewalReusesMaterial ==
    /\ []C13_SameKeyStates
    /\ [][(rn.pc = "login" /\ rn'.pc # "login") =>
              /\ hist'.req = [hist.req EXCEPT !.rootCAs = pool]
              /\ hist'.req.signer = boot.signer
              /\ hist'.req.csr = boot.csr
              /\ fx' = fx
              /\ rn'.res.cert # NilCert => rn'.res.cert.PrivateKey = boot.signer]_vars
    /\ [][pc = "done" => boot' = boot /\ token' = token /\ fx'.keys = fx.keys]_vars

\* a second renewal logs in, after a renewal that added a root to the pool
C13_Witness ==
    /\ rn.pc = "addcert"
    /\ hist.lastRenew = "ok"
    /\ Len(pool) = 2
    /\ hist.req.rootCAs = pool
    /\ renewer.cert.PrivateKey = "k1"

\* C14: getRootCertificate skips, in order, every block that is not of type
\* CERTIFICATE or that carries headers, and decides on the first remaining
\* block only: it returns that certificate when its fingerprint matches and
\* fails otherwise, whatever the later blocks are; a response without a
\* header-less CERTIFICATE block fails with the certificate-not-found error.
C14_RootFirstBlockDecides ==
    (call.op = "getRootCertificate" /\ call.n = 1 /\ call.in.net.dial /\ call.in.net.ok) =>
        LET sel == Selectable(call.in.net.pem)
            fp == call.in.fingerprint
        IN  IF sel = <<>>
            THEN call.out = [cert |-> NilDer, err |-> ErrRootNotFound]
            ELSE IF ~Parses(sel[1].der)
            THEN call.out = [cert |-> NilDer, err |-> ErrRootParse]
            ELSE IF DigestDiffers(fp, sel[1].der)
            THEN call.out = [cert |-> NilDer, err |-> ErrFingerprint]
            ELSE call.out = [cert |-> sel[1].der, err |-> ""]

\* blocks skipped, the first remaining one returned, a later one not matching
C14_Witness ==
    /\ call.op = "getRootCertificate"
    /\ call.n = 1
    /\ Len(call.in.net.pem) = 3
    /\ call.in.net.pem[1].type = "CERTIFICATE"
    /\ call.in.net.pem[1].hdr
    /\ Len(Selectable(call.in.net.pem)) = 2
    /\ call.out.cert = Selectable(call.in.net.pem)[1].der
    /\ call.out.err = ""
    /\ DigestDiffers(call.in.fingerprint, Selectable(call.in.net.pem)[2].der)

\* C15: every Identity a successful login returns has a leaf certificate, and
\* its certificate list is that one leaf followed by the intermediates: a
\* response whose leaf field holds no certificate block, or more than one,
\* gives no successful login with a leafless or multi-leaf list.
C15_LoginHasOneLeaf ==
    (call.op = "login" /\ call.n >= 1 /\ call.out.err = "") =>
        /\ call.out.cert.Leaf # NilDer
        /\ call.out.cert.Certificate # <<>>
        /\ call.out.cert.Certificate[1] = call.out.cert.Leaf
        /\ Len(CertBlocks(call.in.net.leaf)) = 1
        /\ Len(call.out.cert.Certificate) = Len(CertBlocks(call.in.net.chain))

\* C16: when Claims.ToCertificates returns without error, each of the nine
\* durations of the result is non-nil and is the duration parsed from its
\* string of the claims; when one of the nine strings does not parse, it
\* returns an error and no claims.
C16_DurationsConverted ==
    (call.op = "ToCertificates" /\ call.n = 1) =>
        LET c == call.in
            want == [MinTLSDur |-> c.X509.Durations.Min,
                     MaxTLSDur |-> c.X509.Durations.Max,
                     DefaultTLSDur |-> c.X509.Durations.Default,
                     MinUserSSHDur |-> c.SSH.UserDurations.Min,
                     MaxUserSSHDur |-> c.SSH.UserDurations.Max,
                     DefaultUserSSHDur |-> c.SSH.UserDurations.Default,
                     MinHostSSHDur |-> c.SSH.HostDurations.Min,
                     MaxHostSSHDur |-> c.SSH.HostDurations.Max,
                     DefaultHostSSHDur |-> c.SSH.HostDurations.Default]
        IN  IF \E f \in DOMAIN want : ParseDuration(want[f]).err
            THEN call.out.err # "" /\ call.out.claims = NilClaims
            ELSE /\ call.out.err = ""
                 /\ \A f \in DOMAIN want :
                       /\ call.out.claims[f] # NilDur
                       /\ call.out.claims[f] = Duration(ParseDuration(want[f]).d)

\* C17: a request method of MgmtClient sends its request at most twice; the
\* second send follows a first response of status >= 400 that a configured
\* retry function accepted, and the swap of a newly built transport; a second
\* response of status >= 400 is returned as an error, with no further retry
\* and no further swap.
C17_AtMostOneRetry ==
    (call.op \in MgmtMethods) =>
        LET st == call.out
            f == call.in.retryFunc
        IN  /\ call.n <= 2
            /\ st.swaps <= 1
            /\ (call.n = 2 \/ st.swaps = 1 \/ st.retried) =>
                  /\ st.statuses # <<>>
                  /\ st.statuses[1] >= 400
                  /\ f.set
                  /\ st.statuses[1] \in f.accepts
                  /\ st.swaps = 1
                  /\ st.retried
            /\ (Len(st.statuses) = 2 /\ st.statuses[2] >= 400) =>
                  /\ st.pc = "returned"
                  /\ st.ret = ErrStatus
                  /\ call.n = 2
                  /\ st.swaps = 1
            /\ (st.pc = "retry" /\ call.n = 1) => st.swaps = 1
            /\ call.n = 2 => st.pc = "returned"

\* the retried request answered by an error status once more
C17_Witness ==
    /\ call.op = "UpdateAdmin"
    /\ call.n = 2
    /\ call.out.statuses = <<401, 500>>
    /\ call.out.swaps = 1
    /\ call.out.ret = ErrStatus

====
